---- MODULE Spec2Model ----
(***************************************************************************)
(* Rollover / hedge decision-and-execution engine of the Strategy1 bots:   *)
(* the calendar arithmetic, the futures monitor (staggered entry and       *)
(* rollover), the retrying order executors and the hedge planner/matcher.  *)
(*                                                                         *)
(* Dates are day numbers counted from Monday 2024-01-01 (day 0), so that   *)
(* Python's date.weekday() is  d % 7  (Monday = 0 ... Sunday = 6).         *)
(***************************************************************************)
EXTENDS Integers, Sequences, FiniteSets, TLC

VARIABLES
    \* ---- calendar walk (get_rollover_date run step by step)
    cal_pc, cal_expiry, cal_holidays, cal_day, cal_count,
    \* ---- futures monitor (run_nifty_monitor / run_goldm_monitor)
    f_bot,              \* which script runs: "nifty" or "goldm"
    clk_day, clk_phase, \* the wall clock: day number, "pre" | "blackout" | "post"
    f_pos,              \* broker: net quantity per contract symbol
    f_last,             \* broker: the symbol listed last in positions()['net']
    f_faults,           \* gateway faults raised so far
    f_pc,               \* position of the monitor
    f_batch,            \* GOLDM: index of  for batch in range(3)
    f_today, f_new_contract, f_current_lots, f_current_contract,
    f_i,                \* rollover loop index
    f_trace,            \* what the running (or last) rollover did, in order
    f_N,                \* lots read when that rollover was triggered
    f_allOk,            \* every order of that rollover was accepted so far
    f_start,            \* net quantities when that rollover was triggered
    f_paused,           \* the running staggered loop has found the clock in the window
    gp_attempt, gp_ret_to,                          \* get_current_position frame
    k_symbol, k_lots, k_txn, k_attempt, k_made, k_ret, k_ret_to, \* place_kite_order frame
    \* ---- hedge bots (run_nifty_ce_hedge_bot / run_ce_hedge_bot)
    h_bot,              \* which script runs: "nifty" or "goldm"
    h_sellBound,        \* place_ce_sell_order is bound in the running script: always in
                        \* the NIFTY script; the GOLDM script calls it without defining
                        \* it (FALSE), TRUE runs it on the NIFTY script's definition
    h_avail,            \* GOLDM: strikes listed by kite.instruments("MCX")
    h_qty,              \* broker: net quantity per CE strike (short is negative)
    h_orders,           \* broker: the LIMIT orders placed, by order id
    h_pc,               \* position of the bot
    h_lastRead,         \* how the last position reader call ended
    hl,                 \* locals of the outer loop
    mt,                 \* locals of the greedy matcher
    ce,                 \* frame of place_ce_sell_order
    \* ---- one call of a function that reads nothing but its arguments
    p_fn,               \* the function called
    p_arg,              \* its arguments
    p_ret,              \* what it returned
    p_pc                \* "called" | "returned"

calVars == <<cal_pc, cal_expiry, cal_holidays, cal_day, cal_count>>

clockVars == <<clk_day, clk_phase>>
gpVars == <<gp_attempt, gp_ret_to>>
kiteVars == <<k_symbol, k_lots, k_txn, k_attempt, k_made, k_ret, k_ret_to>>
rollHist == <<f_trace, f_N, f_allOk, f_start>>
futLocals == <<f_today, f_new_contract, f_current_lots, f_current_contract>>
futVars == <<f_bot, clockVars, f_pos, f_last, f_faults, f_pc, f_batch, futLocals,
             f_i, rollHist, f_paused, gpVars, kiteVars>>

hedgeVars == <<h_bot, h_sellBound, h_avail, h_qty, h_orders, h_pc, h_lastRead, hl, mt, ce>>

pureVars == <<p_fn, p_arg, p_ret, p_pc>>

vars == <<calVars, futVars, hedgeVars, pureVars>>

\* what the steps of one machine leave alone
notCal == <<futVars, hedgeVars, pureVars>>
notFut == <<calVars, hedgeVars, pureVars>>
notHedge == <<calVars, futVars, pureVars>>
notPure == <<calVars, futVars, hedgeVars>>

-----------------------------------------------------------------------------
(* Bounds of the model *)

\* expiries tried by the calendar walk: CalFirstExpiry .. CalFirstExpiry + MaxExpirySpan
MaxExpirySpan == 7
\* largest holiday set drawn for the calendar walk
MaxHolidays == 2
\* days before the first expiry that may be drawn as holidays
HolidayWindow == 11

-----------------------------------------------------------------------------
(* Calendar: datetime arithmetic on day numbers *)

IsLeap(y) == (y % 4 = 0 /\ y % 100 # 0) \/ y % 400 = 0

DaysInMonth(y, m) ==
    IF m = 2 THEN (IF IsLeap(y) THEN 29 ELSE 28)
    ELSE IF m \in {4, 6, 9, 11} THEN 30 ELSE 31

RECURSIVE DaysBeforeMonth(_, _)
DaysBeforeMonth(y, m) ==
    IF m = 1 THEN 0 ELSE DaysBeforeMonth(y, m - 1) + DaysInMonth(y, m - 1)

RECURSIVE DaysBeforeYear(_)
DaysBeforeYear(y) ==
    IF y <= 2024 THEN 0
    ELSE DaysBeforeYear(y - 1) + (IF IsLeap(y - 1) THEN 366 ELSE 365)

\* datetime(y, m, d) as a day number
DayNumber(y, m, d) == DaysBeforeYear(y) + DaysBeforeMonth(y, m) + (d - 1)

\* date.weekday()
weekday(d) == d % 7

\* mcx_holidays = ["2025-04-10", "2025-04-14", "2025-05-01"]
mcx_holidays ==
    {DayNumber(2025, 4, 10), DayNumber(2025, 4, 14), DayNumber(2025, 5, 1)}

is_trading_day_mut(date, holidays) == weekday(date) < 6 /\ date \notin holidays

\* is_trading_day(date), with the holiday list as a parameter
is_trading_day(date, holidays) == date \notin holidays /\ weekday(date) < 5

\* get_last_thursday(year, month): last day of the month, then back to weekday 3
RECURSIVE BackToThursday(_)
BackToThursday(day) == IF weekday(day) # 3 THEN BackToThursday(day - 1) ELSE day

\* the first day of the next month taken for the last day of this one
get_last_thursday_mut(year, month) ==
    LET day == IF month < 12 THEN DayNumber(year, month + 1, 1)
                            ELSE DayNumber(year + 1, 1, 1)
    IN  BackToThursday(day)

get_last_thursday(year, month) ==
    LET day == IF month < 12 THEN DayNumber(year, month + 1, 1) - 1
                            ELSE DayNumber(year + 1, 1, 1) - 1
    IN  BackToThursday(day)

\* get_expiry_date(year, month) of the GOLDM monitor: the 5th, moved back to a
\* trading day
RECURSIVE BackToTradingDay(_, _)
BackToTradingDay(day, holidays) ==
    IF ~is_trading_day(day, holidays) THEN BackToTradingDay(day - 1, holidays)
    ELSE day

get_expiry_date(year, month) == BackToTradingDay(DayNumber(year, month, 5), mcx_holidays)

\* number of trading days the rollover walk consumes
RolloverCount == 6

\* get_rollover_date(expiry): the loop  while count < 6: day -= 1; count += trading
RECURSIVE RolloverWalk(_, _, _)
RolloverWalk(day, count, holidays) ==
    IF count < RolloverCount
    THEN LET d == day - 1
         IN  RolloverWalk(d, IF is_trading_day(d, holidays) THEN count + 1 ELSE count,
                          holidays)
    ELSE day

get_rollover_date(expiry, holidays) == RolloverWalk(expiry, 0, holidays)

-----------------------------------------------------------------------------
(* The calendar walk as a machine: one action per loop iteration *)

CalFirstExpiry == DayNumber(2025, 6, 1)

CalExpiries == CalFirstExpiry .. (CalFirstExpiry + MaxExpirySpan)

CalHolidayDays == (CalFirstExpiry - HolidayWindow) .. (CalFirstExpiry + MaxExpirySpan)

CalHolidaySets ==
    {mcx_holidays} \cup {H \in SUBSET CalHolidayDays : Cardinality(H) <= MaxHolidays}

CalInit ==
    /\ cal_pc = "walk"
    /\ cal_expiry \in CalExpiries
    /\ cal_holidays \in CalHolidaySets
    /\ cal_day = cal_expiry
    /\ cal_count = 0

\* one iteration of  while count < 6
RolloverStep ==
    /\ cal_pc = "walk"
    /\ cal_count < RolloverCount
    /\ cal_day' = cal_day - 1
    /\ cal_count' = IF is_trading_day(cal_day - 1, cal_holidays)
                    THEN cal_count + 1 ELSE cal_count
    /\ UNCHANGED <<cal_pc, cal_expiry, cal_holidays>>
    /\ UNCHANGED notCal

\* return day
RolloverReturn ==
    /\ cal_pc = "walk"
    /\ ~(cal_count < RolloverCount)
    /\ cal_pc' = "done"
    /\ UNCHANGED <<cal_expiry, cal_holidays, cal_day, cal_count>>
    /\ UNCHANGED notCal

CalNext == RolloverStep \/ RolloverReturn

-----------------------------------------------------------------------------
(* Futures monitor: configuration of the two scripts *)

TOTAL_LOTS_NIFTY == 3
LOTS_PER_ENTRY_NIFTY == 1
TOTAL_LOTS_GOLDM == 15
LOTS_PER_ENTRY_GOLDM == 5
\* place_kite_order(..., retries=3)
KITE_RETRIES == 3
\* get_current_position(kite, retries=3) of the GOLDM monitor
POSITION_RETRIES == 3
\* for batch in range(3)
GOLDM_BATCHES == 3

TOTAL_LOTS(bot) == IF bot = "nifty" THEN TOTAL_LOTS_NIFTY ELSE TOTAL_LOTS_GOLDM
LOTS_PER_ENTRY(bot) == IF bot = "nifty" THEN LOTS_PER_ENTRY_NIFTY ELSE LOTS_PER_ENTRY_GOLDM

\* bounds of the futures model
MaxFaults == 3          \* gateway faults in one run
DaysBefore == 1         \* first day of the run: rollover date - DaysBefore
DaysAfter == 3          \* last day of the clock: rollover date + DaysAfter
OddLots == 2            \* a start holding that is not a whole number of batches

\* a symbol is its text, character by character
Digits == <<"0", "1", "2", "3", "4", "5", "6", "7", "8", "9">>

\* str(year)[2:] of a four-digit year
YearSuffix(year) == <<Digits[((year \div 10) % 10) + 1], Digits[(year % 10) + 1]>>

\* strftime('%b').upper(), by month number
MonthAbbr ==
    <<<<"J", "A", "N">>, <<"F", "E", "B">>, <<"M", "A", "R">>, <<"A", "P", "R">>,
      <<"M", "A", "Y">>, <<"J", "U", "N">>, <<"J", "U", "L">>, <<"A", "U", "G">>,
      <<"S", "E", "P">>, <<"O", "C", "T">>, <<"N", "O", "V">>, <<"D", "E", "C">>>>

\* the underlying's name, five characters in both monitors
Root == IF f_bot = "goldm" THEN <<"G", "O", "L", "D", "M">>
        ELSE <<"N", "I", "F", "T", "Y">>

\* get_contract_symbol(year, month):
\*   f"NIFTY{str(year)[2:]}{datetime(year, month, 1).strftime('%b').upper()}FUT"
get_contract_symbol(year, month) ==
    Root \o YearSuffix(year) \o MonthAbbr[month] \o <<"F", "U", "T">>
NoSymbol == <<>>      \* ""
Contracts == {get_contract_symbol(2025, 6), get_contract_symbol(2025, 7)}

\* symbol[a:b] of Python, for 0 <= a <= b
Slice(symbol, a, b) ==
    SubSeq(symbol, a + 1, IF b < Len(symbol) THEN b ELSE Len(symbol))

\* int(text) of a text of decimal digits; -1 stands for the ValueError
RECURSIVE IntOf(_, _)
IntOf(text, acc) ==
    IF text = <<>> THEN acc
    ELSE IF \E d \in 1 .. 10 : Digits[d] = text[1]
         THEN IntOf(Tail(text), acc * 10 + (CHOOSE d \in 1 .. 10 : Digits[d] = text[1]) - 1)
         ELSE -1

\* datetime.strptime(month_str, "%b").month; 0 stands for the ValueError
MonthOf(month_str) ==
    IF \E m \in 1 .. 12 : MonthAbbr[m] = month_str
    THEN CHOOSE m \in 1 .. 12 : MonthAbbr[m] = month_str
    ELSE 0

\* a lot size read from the wrong characters of the symbol
get_nifty_lot_size_mut(symbol) ==
    LET month == MonthOf(Slice(symbol, 6, 9))
        year == IntOf(<<"2", "0">> \o Slice(symbol, 4, 6), 0)
    IN  IF month # 0 /\ year # -1 /\ (year > 2025 \/ (year = 2025 /\ month >= 3))
        THEN 75 ELSE 50

\* get_nifty_lot_size(symbol): month_str = symbol[7:10], year_str = symbol[5:7],
\* 75 from March 2025, 50 before and whenever the parse raises
get_nifty_lot_size(symbol) ==
    LET month == MonthOf(Slice(symbol, 7, 10))
        year == IntOf(<<"2", "0">> \o Slice(symbol, 5, 7), 0)
    IN  IF month # 0 /\ year # -1 /\ (year > 2025 \/ (year = 2025 /\ month >= 3))
        THEN 75 ELSE 50

\* raw order quantity of `lots` lots: NIFTY multiplies by the lot size, GOLDM
\* passes the number through
OrderQuantity(bot, symbol, lots) ==
    IF bot = "nifty" THEN lots * get_nifty_lot_size(symbol) ELSE lots

\* lots a raw position quantity is read back as
LotsOfQuantity(bot, symbol, qty) ==
    IF bot = "nifty" THEN qty \div get_nifty_lot_size(symbol) ELSE qty

\* expiry = get_last_thursday(2025, 6)  /  get_expiry_date(2025, 6)
Expiry(bot) == IF bot = "nifty" THEN get_last_thursday(2025, 6) ELSE get_expiry_date(2025, 6)
Rollover(bot) == get_rollover_date(Expiry(bot), mcx_holidays)

\* the next month taken from 9 calendar days to expiry on
SelectMonthMut(today, expiry, rollover) ==
    IF today >= rollover \/ (expiry - today) <= 9 THEN 7 ELSE 6

\* 7 if today >= rollover or days_to_expiry <= 8 else 6
SelectMonth(today, expiry, rollover) ==
    IF today >= rollover \/ (expiry - today) <= 8 THEN 7 ELSE 6

\* new_contract = get_contract_symbol(2025, 7 if ... else 6)
NewContract(bot, today) ==
    get_contract_symbol(2025, SelectMonth(today, Expiry(bot), Rollover(bot)))

FirstDay(bot) == Rollover(bot) - DaysBefore
LastDay(bot) == Rollover(bot) + DaysAfter

-----------------------------------------------------------------------------
(* The wall clock and time.sleep *)

Advance(c) ==
    IF c.phase = "pre" THEN [day |-> c.day, phase |-> "blackout"]
    ELSE IF c.phase = "blackout" THEN [day |-> c.day, phase |-> "post"]
    ELSE IF c.day < LastDay(f_bot) THEN [day |-> c.day + 1, phase |-> "pre"]
    ELSE c

Now == [day |-> clk_day, phase |-> clk_phase]

\* time.sleep(STAGGER_DELAY), time.sleep(MONITOR_INTERVAL): half an hour or more,
\* so a sleep that starts inside the five-minute window ends after it
SleepLong(c) ==
    IF c.phase = "pre" THEN {c, Advance(c), Advance(Advance(c))}
    ELSE IF c.phase = "blackout" THEN {Advance(c)}
    ELSE {c, Advance(c)}

\* time.sleep(5) between retries
SleepShort(c) == {c, Advance(c)}

\* time.sleep(wait), wait = whole seconds left to 09:05 (the fraction is dropped)
SleepWait(c) == {c, Advance(c)}

SetClock(c) == clk_day' = c.day /\ clk_phase' = c.phase

\* a monitor that does not look at the time of day
InWindowMut == FALSE

\* dtime(9, 0) <= now_time < dtime(9, 5)
InWindow == clk_phase = "blackout"

-----------------------------------------------------------------------------
(* Broker view of the futures account *)

FutOrder == IF f_last = get_contract_symbol(2025, 6)
            THEN <<get_contract_symbol(2025, 7), get_contract_symbol(2025, 6)>>
            ELSE <<get_contract_symbol(2025, 6), get_contract_symbol(2025, 7)>>

\* the loop of get_current_position over positions()['net']: lots summed over
\* the long positions, symbol of the last one seen
RECURSIVE ScanPositions(_, _, _, _)
ScanPositions(bot, i, lots, symbol) ==
    IF i > Len(FutOrder) THEN <<lots, symbol>>
    ELSE LET s == FutOrder[i]
         IN  IF f_pos[s] > 0
             THEN ScanPositions(bot, i + 1, lots + LotsOfQuantity(bot, s, f_pos[s]), s)
             ELSE ScanPositions(bot, i + 1, lots, symbol)

\* lots actually held long, over all contracts of the underlying
HeldLots == ScanPositions(f_bot, 1, 0, NoSymbol)[1]

-----------------------------------------------------------------------------
(* Futures monitor: the machine *)

\* start holdings per contract: whole entry batches, or OddLots short of the target
InitLots(bot) ==
    {n \in 0 .. TOTAL_LOTS(bot) :
        n % LOTS_PER_ENTRY(bot) = 0 \/ n = TOTAL_LOTS(bot) - OddLots}

FutInit ==
    /\ f_bot \in {"nifty", "goldm"}
    /\ clk_day \in FirstDay(f_bot) .. LastDay(f_bot)
    /\ clk_phase \in {"pre", "blackout", "post"}
    /\ \E a \in InitLots(f_bot), b \in InitLots(f_bot) :
          /\ a + b <= TOTAL_LOTS(f_bot)
          /\ f_pos = [s \in Contracts |->
                        IF s = get_contract_symbol(2025, 6)
                        THEN OrderQuantity(f_bot, s, a) ELSE OrderQuantity(f_bot, s, b)]
    /\ f_last \in Contracts
    /\ f_faults = 0
    /\ f_pc = "cycle"
    /\ f_batch = 0
    /\ f_today = clk_day
    /\ f_new_contract = NoSymbol
    /\ f_current_lots = 0
    /\ f_current_contract = NoSymbol
    /\ f_i = 0
    /\ f_trace = <<>>
    /\ f_N = 0
    /\ f_allOk = TRUE
    /\ f_start = f_pos
    /\ f_paused = FALSE
    /\ gp_attempt = 1 /\ gp_ret_to = "decide"
    /\ k_symbol = NoSymbol /\ k_lots = 0 /\ k_txn = "BUY" /\ k_attempt = 1
    /\ k_made = 0 /\ k_ret = TRUE /\ k_ret_to = "cycle"

\* `continue` / falling off the body of the outer loop: GOLDM counts a batch
NextBatch == f_batch' = IF f_bot = "goldm" THEN f_batch + 1 ELSE f_batch

\* GOLDM:  for batch in range(3)  is exhausted and run_goldm_monitor returns
CycleExit ==
    /\ f_pc = "cycle"
    /\ f_bot = "goldm" /\ f_batch >= GOLDM_BATCHES
    /\ f_pc' = "exited"
    /\ UNCHANGED <<f_bot, clockVars, f_pos, f_last, f_faults, f_batch, futLocals,
                   f_i, rollHist, gpVars, kiteVars>>
    /\ UNCHANGED f_paused
    /\ UNCHANGED notFut

CycleRuns == f_pc = "cycle" /\ (f_bot = "goldm" => f_batch < GOLDM_BATCHES)

\* if dtime(9, 0) <= now_time < dtime(9, 5): sleep(wait); continue
CycleBlackout ==
    /\ CycleRuns
    /\ InWindow
    /\ f_today' = clk_day
    /\ \E c \in SleepWait(Now) : SetClock(c)
    /\ NextBatch
    /\ UNCHANGED <<f_bot, f_pos, f_last, f_faults, f_pc, f_new_contract, f_current_lots,
                   f_current_contract, f_i, rollHist, gpVars, kiteVars>>
    /\ UNCHANGED f_paused
    /\ UNCHANGED notFut

\* NIFTY: if not is_trading_day(today): sleep(MONITOR_INTERVAL); continue
CycleHoliday ==
    /\ CycleRuns
    /\ ~InWindow
    /\ f_bot = "nifty" /\ ~is_trading_day(clk_day, mcx_holidays)
    /\ f_today' = clk_day
    /\ \E c \in SleepLong(Now) : SetClock(c)
    /\ UNCHANGED <<f_bot, f_pos, f_last, f_faults, f_pc, f_batch, f_new_contract,
                   f_current_lots, f_current_contract, f_i, rollHist, gpVars, kiteVars>>
    /\ UNCHANGED f_paused
    /\ UNCHANGED notFut

\* expiry, rollover, new_contract are computed and get_current_position is called
CycleEvaluate ==
    /\ CycleRuns
    /\ ~InWindow
    /\ f_bot = "nifty" => is_trading_day(clk_day, mcx_holidays)
    /\ f_today' = clk_day
    /\ f_new_contract' = NewContract(f_bot, clk_day)
    /\ f_pc' = "read" /\ gp_attempt' = 1 /\ gp_ret_to' = "decide"
    /\ UNCHANGED <<f_bot, clockVars, f_pos, f_last, f_faults, f_batch, f_current_lots,
                   f_current_contract, f_i, rollHist, kiteVars>>
    /\ UNCHANGED f_paused
    /\ UNCHANGED notFut

\* what get_current_position hands back to the place that called it: the main
\* cycle keeps (lots, symbol), the staggered loop keeps the lots only
PositionReturn(lots, symbol) ==
    /\ f_current_lots' = lots
    /\ f_current_contract' = IF gp_ret_to = "decide" THEN symbol ELSE f_current_contract
    /\ f_pc' = gp_ret_to

\* on a read fault get_current_position returns (0, "")
ReadFaultResult == <<0, NoSymbol>>

\* kite.positions()['net'] answers
GetCurrentPositionOk ==
    /\ f_pc = "read"
    /\ LET r == ScanPositions(f_bot, 1, 0, NoSymbol) IN PositionReturn(r[1], r[2])
    /\ UNCHANGED <<f_bot, clockVars, f_pos, f_last, f_faults, f_batch, f_today,
                   f_new_contract, f_i, rollHist, gpVars, kiteVars>>
    /\ UNCHANGED f_paused
    /\ UNCHANGED notFut

\* kite.positions() raises: NIFTY returns (0, "") at once, GOLDM after its retries
GetCurrentPositionFault ==
    /\ f_pc = "read"
    /\ f_faults < MaxFaults
    /\ f_faults' = f_faults + 1
    /\ IF f_bot = "goldm" /\ gp_attempt < POSITION_RETRIES
       THEN /\ gp_attempt' = gp_attempt + 1
            /\ \E c \in SleepShort(Now) : SetClock(c)
            /\ UNCHANGED <<f_pc, f_current_lots, f_current_contract, gp_ret_to>>
       ELSE /\ PositionReturn(ReadFaultResult[1], ReadFaultResult[2])
            /\ UNCHANGED <<clockVars, gpVars>>
    /\ UNCHANGED <<f_bot, f_pos, f_last, f_batch, f_today, f_new_contract,
                   f_i, rollHist, kiteVars>>
    /\ UNCHANGED f_paused
    /\ UNCHANGED notFut

RolloverDue ==
    /\ f_today >= Rollover(f_bot)
    /\ f_current_contract # f_new_contract
    /\ f_current_lots > 0

\* if today >= rollover and current_contract != new_contract and current_lots > 0
DecideRollover ==
    /\ f_pc = "decide"
    /\ RolloverDue
    /\ f_pc' = "roll_loop"
    /\ f_i' = 0 /\ f_N' = f_current_lots /\ f_trace' = <<>>
    /\ f_allOk' = TRUE /\ f_start' = f_pos
    /\ UNCHANGED <<f_bot, clockVars, f_pos, f_last, f_faults, f_batch, futLocals,
                   gpVars, kiteVars>>
    /\ UNCHANGED f_paused
    /\ UNCHANGED notFut

\* if current_lots >= TOTAL_LOTS: sleep(MONITOR_INTERVAL); continue
DecideHold ==
    /\ f_pc = "decide"
    /\ ~RolloverDue
    /\ f_current_lots >= TOTAL_LOTS(f_bot)
    /\ \E c \in SleepLong(Now) : SetClock(c)
    /\ f_pc' = "cycle" /\ NextBatch
    /\ UNCHANGED <<f_bot, f_pos, f_last, f_faults, futLocals, f_i, rollHist,
                   gpVars, kiteVars>>
    /\ UNCHANGED f_paused
    /\ UNCHANGED notFut

\* GOLDM: if not market_open_today: sleep(MONITOR_INTERVAL); continue
DecideClosed ==
    /\ f_pc = "decide"
    /\ ~RolloverDue
    /\ f_current_lots < TOTAL_LOTS(f_bot)
    /\ f_bot = "goldm" /\ ~is_trading_day(f_today, mcx_holidays)
    /\ \E c \in SleepLong(Now) : SetClock(c)
    /\ f_pc' = "cycle" /\ NextBatch
    /\ UNCHANGED <<f_bot, f_pos, f_last, f_faults, futLocals, f_i, rollHist,
                   gpVars, kiteVars>>
    /\ UNCHANGED f_paused
    /\ UNCHANGED notFut

\* otherwise the staggered entry starts
DecideEntry ==
    /\ f_pc = "decide"
    /\ ~RolloverDue
    /\ f_current_lots < TOTAL_LOTS(f_bot)
    /\ f_bot = "goldm" => is_trading_day(f_today, mcx_holidays)
    /\ f_pc' = "stag_top"
    /\ UNCHANGED <<f_bot, clockVars, f_pos, f_last, f_faults, f_batch, futLocals,
                   f_i, rollHist, gpVars, kiteVars>>
    /\ f_paused' = FALSE
    /\ UNCHANGED notFut

\* a call place_kite_order(kite, symbol, lots, txn), to return to `ret`
CallKite(symbol, lots, txn, ret) ==
    /\ f_pc' = "kite"
    /\ k_symbol' = symbol /\ k_lots' = lots /\ k_txn' = txn
    /\ k_attempt' = 1 /\ k_made' = 0 /\ k_ret_to' = ret
    /\ UNCHANGED k_ret

RolloverRangeMut == f_current_lots + 1

\* for _ in range(current_lots)
RolloverRange == f_current_lots

\* place_kite_order(kite, current_contract, 1, SELL)
RollSell ==
    /\ f_pc = "roll_loop"
    /\ f_i < RolloverRange
    /\ CallKite(f_current_contract, 1, "SELL", "roll_buy")
    /\ UNCHANGED <<f_bot, clockVars, f_pos, f_last, f_faults, f_batch, futLocals,
                   f_i, rollHist, gpVars>>
    /\ UNCHANGED f_paused
    /\ UNCHANGED notFut

\* place_kite_order(kite, new_contract, 1, BUY)
RollBuy ==
    /\ f_pc = "roll_buy"
    /\ CallKite(f_new_contract, 1, "BUY", "roll_sleep")
    /\ UNCHANGED <<f_bot, clockVars, f_pos, f_last, f_faults, f_batch, futLocals,
                   f_i, rollHist, gpVars>>
    /\ UNCHANGED f_paused
    /\ UNCHANGED notFut

\* time.sleep(STAGGER_DELAY) closes the lot-pair
RollSleep ==
    /\ f_pc = "roll_sleep"
    /\ \E c \in SleepLong(Now) : SetClock(c)
    /\ f_i' = f_i + 1
    /\ f_trace' = Append(f_trace, [ev |-> "sleep"])
    /\ f_pc' = "roll_loop"
    /\ UNCHANGED <<f_bot, f_pos, f_last, f_faults, f_batch, futLocals, f_N,
                   f_allOk, f_start, gpVars, kiteVars>>
    /\ UNCHANGED f_paused
    /\ UNCHANGED notFut

\* the range is exhausted: "Rollover complete", sleep(MONITOR_INTERVAL), continue
RollDone ==
    /\ f_pc = "roll_loop"
    /\ ~(f_i < RolloverRange)
    /\ \E c \in SleepLong(Now) : SetClock(c)
    /\ f_pc' = "cycle" /\ NextBatch
    /\ UNCHANGED <<f_bot, f_pos, f_last, f_faults, futLocals, f_i, rollHist,
                   gpVars, kiteVars>>
    /\ UNCHANGED f_paused
    /\ UNCHANGED notFut

\* NIFTY:  while current_lots < TOTAL_LOTS ;  GOLDM:  while True
StagCondition == f_bot = "goldm" \/ f_current_lots < TOTAL_LOTS(f_bot)

\* inside the loop and inside the window: sleep(wait); continue (the loop goes on)
StagBlackout ==
    /\ f_pc = "stag_top"
    /\ StagCondition
    /\ InWindow
    /\ \E c \in SleepWait(Now) : SetClock(c)
    /\ UNCHANGED <<f_bot, f_pos, f_last, f_faults, f_pc, f_batch, futLocals,
                   f_i, rollHist, gpVars, kiteVars>>
    /\ f_paused' = TRUE
    /\ UNCHANGED notFut

\* current_lots, _ = get_current_position(kite); GOLDM first recomputes
\* new_contract from the `today` of the cycle's start
StagRead ==
    /\ f_pc = "stag_top"
    /\ StagCondition
    /\ ~InWindow
    /\ f_new_contract' = IF f_bot = "goldm" THEN NewContract(f_bot, f_today)
                         ELSE f_new_contract
    /\ f_pc' = "read" /\ gp_attempt' = 1 /\ gp_ret_to' = "stag_check"
    /\ UNCHANGED <<f_bot, clockVars, f_pos, f_last, f_faults, f_batch, f_today,
                   f_current_lots, f_current_contract, f_i, rollHist, kiteVars>>
    /\ UNCHANGED f_paused
    /\ UNCHANGED notFut

\* the loop is left, by  if current_lots >= TOTAL_LOTS: break  or by its while
\* condition; then sleep(MONITOR_INTERVAL)
StagBreak ==
    /\ \/ f_pc = "stag_check" /\ f_current_lots >= TOTAL_LOTS(f_bot)
       \/ f_pc = "stag_top" /\ ~StagCondition
    /\ \E c \in SleepLong(Now) : SetClock(c)
    /\ f_pc' = "cycle" /\ NextBatch
    /\ UNCHANGED <<f_bot, f_pos, f_last, f_faults, futLocals, f_i, rollHist,
                   gpVars, kiteVars>>
    /\ UNCHANGED f_paused
    /\ UNCHANGED notFut

\* a fixed increment: the batch size whatever was read
LotsToPlaceMut == LOTS_PER_ENTRY(f_bot)

\* NIFTY buys 1 lot; GOLDM buys min(LOTS_PER_ENTRY, TOTAL_LOTS - current_lots)
LotsToPlace ==
    IF f_bot = "nifty" THEN 1
    ELSE IF LOTS_PER_ENTRY(f_bot) < TOTAL_LOTS(f_bot) - f_current_lots
         THEN LOTS_PER_ENTRY(f_bot) ELSE TOTAL_LOTS(f_bot) - f_current_lots

StagBuy ==
    /\ f_pc = "stag_check"
    /\ f_current_lots < TOTAL_LOTS(f_bot)
    /\ CallKite(f_new_contract, LotsToPlace, "BUY", "stag_sleep")
    /\ UNCHANGED <<f_bot, clockVars, f_pos, f_last, f_faults, f_batch, futLocals,
                   f_i, rollHist, gpVars>>
    /\ UNCHANGED f_paused
    /\ UNCHANGED notFut

\* time.sleep(STAGGER_DELAY) at the end of a staggered iteration
StagSleep ==
    /\ f_pc = "stag_sleep"
    /\ \E c \in SleepLong(Now) : SetClock(c)
    /\ f_pc' = "stag_top"
    /\ UNCHANGED <<f_bot, f_pos, f_last, f_faults, f_batch, futLocals, f_i,
                   rollHist, gpVars, kiteVars>>
    /\ UNCHANGED f_paused
    /\ UNCHANGED notFut

\* place_kite_order returns `ok`; a rollover's calls are entered in its trace
KiteReturn(ok) ==
    /\ k_ret' = ok
    /\ f_pc' = k_ret_to
    /\ f_trace' = IF k_ret_to \in {"roll_buy", "roll_sleep"}
                  THEN Append(f_trace, [ev |-> k_txn, symbol |-> k_symbol,
                                        lots |-> k_lots])
                  ELSE f_trace
    /\ f_allOk' = IF k_ret_to \in {"roll_buy", "roll_sleep"}
                  THEN f_allOk /\ ok ELSE f_allOk

\* kite.place_order(...) is accepted: the MARKET order is executed, return True
KiteAccept ==
    /\ f_pc = "kite"
    /\ k_made' = k_made + 1
    /\ f_pos' = [f_pos EXCEPT ![k_symbol] =
                    IF k_txn = "BUY" THEN @ + OrderQuantity(f_bot, k_symbol, k_lots)
                    ELSE @ - OrderQuantity(f_bot, k_symbol, k_lots)]
    /\ KiteReturn(TRUE)
    /\ UNCHANGED <<f_bot, clockVars, f_last, f_faults, f_batch, futLocals, f_i, f_N,
                   f_start, gpVars, k_symbol, k_lots, k_txn, k_attempt, k_ret_to>>
    /\ UNCHANGED f_paused
    /\ UNCHANGED notFut

\* for attempt in range(1, retries + 1)
KiteRetries == KITE_RETRIES

\* kite.place_order(...) raises: sleep(5) and retry while attempt < retries,
\* else return False
KiteFault ==
    /\ f_pc = "kite"
    /\ f_faults < MaxFaults
    /\ f_faults' = f_faults + 1
    /\ k_made' = k_made + 1
    /\ IF k_attempt < KiteRetries
       THEN /\ k_attempt' = k_attempt + 1
            /\ \E c \in SleepShort(Now) : SetClock(c)
            /\ UNCHANGED <<f_pc, f_trace, f_allOk, k_ret>>
       ELSE /\ KiteReturn(FALSE)
            /\ UNCHANGED <<clockVars, k_attempt>>
    /\ UNCHANGED <<f_bot, f_pos, f_last, f_batch, futLocals, f_i, f_N,
                   f_start, gpVars, k_symbol, k_lots, k_txn, k_ret_to>>
    /\ UNCHANGED f_paused
    /\ UNCHANGED notFut

FutNext ==
    \/ CycleExit \/ CycleBlackout \/ CycleHoliday \/ CycleEvaluate
    \/ GetCurrentPositionOk \/ GetCurrentPositionFault
    \/ DecideRollover \/ DecideHold \/ DecideClosed \/ DecideEntry
    \/ RollSell \/ RollBuy \/ RollSleep \/ RollDone
    \/ StagBlackout \/ StagRead \/ StagBreak \/ StagBuy \/ StagSleep
    \/ KiteAccept \/ KiteFault


-----------------------------------------------------------------------------
(* Hedge bots: configuration of the two scripts *)

LOTS_TO_SELL_NIFTY == 3
LOTS_TO_SELL_GOLDM == 15
MAX_ATTEMPTS == 5
MAX_WAIT_CYCLES == 6

LOTS_TO_SELL(bot) == IF bot = "nifty" THEN LOTS_TO_SELL_NIFTY ELSE LOTS_TO_SELL_GOLDM

\* bounds of the hedge model
MaxOrders == 2          \* LIMIT orders the gateway takes in one run of the NIFTY bot
MaxEntryOrders == 1     \* and in one run of the GOLDM bot, until its swap loop
MaxSwapOrders == 2      \* and with the orders of the swap loop
MaxSkew == 2            \* start positions: lots away from a target distribution
IterCap == 4            \* the count of matcher iterations stops here

\* futures prices kite.ltp may answer, in paise
Prices(bot) == IF bot = "nifty" THEN {2456000, 2466000} ELSE {9450000, 9550000}

\* get_ce_strike_distribution(fut_price): the dict, as its items in insertion order
\*   NIFTY: base = int((fut_price + 99) // 100) * 100 ; base + 300/400/500, 1 lot each
\*   GOLDM: int((fut_price + 999) / 1000) * 1000 ; + 1000/2000/3000, 5 lots each
get_ce_strike_distribution(bot, fut_price) ==
    IF bot = "nifty"
    THEN LET base == ((fut_price + 9900) \div 10000) * 100
         IN  <<[strike |-> base + 300, lots |-> 1], [strike |-> base + 400, lots |-> 1],
               [strike |-> base + 500, lots |-> 1]>>
    ELSE LET rounded_price == ((fut_price + 99900) \div 100000) * 1000
         IN  <<[strike |-> rounded_price + 1000, lots |-> 5],
               [strike |-> rounded_price + 2000, lots |-> 5],
               [strike |-> rounded_price + 3000, lots |-> 5]>>

\* dist = {k: v for k, v in full_dist.items() if k in available_strikes}
SelectSeq2(sq, avail) == SelectSeq(sq, LAMBDA e : e.strike \in avail)

\* quantity of one lot in an order and in a position: NIFTY 75, GOLDM 1
CE_LOT(bot) == IF bot = "nifty" THEN 75 ELSE 1

\* the strikes the bounded prices can make a target
Strikes(bot) ==
    UNION {{get_ce_strike_distribution(bot, p)[i].strike : i \in 1 .. 3} : p \in Prices(bot)}

RECURSIVE Sum(_, _)
Sum(f, S) == IF S = {} THEN 0 ELSE LET x == CHOOSE y \in S : TRUE
                                   IN  f[x] + Sum(f, S \ {x})

\* get_existing_ce_positions(kite): strike -> lots, over the short positions
\*   NIFTY: abs(quantity // 75) ; GOLDM: abs(quantity)
ExistingLots(bot, qty) ==
    IF qty < 0
    THEN (IF bot = "nifty" THEN -(qty \div 75) ELSE -qty)
    ELSE 0

get_existing_ce_positions ==
    [s \in {x \in DOMAIN h_qty : h_qty[x] < 0} |-> ExistingLots(h_bot, h_qty[s])]

\* get_total_ce_lots(kite)
get_total_ce_lots ==
    Sum(get_existing_ce_positions, DOMAIN get_existing_ce_positions)

-----------------------------------------------------------------------------
(* Hedge bots: start *)

DistAsMap(dist, S) ==
    [s \in S |-> IF \E i \in 1 .. Len(dist) : dist[i].strike = s
                 THEN (CHOOSE e \in {dist[i] : i \in 1 .. Len(dist)} : e.strike = s).lots
                 ELSE 0]

Abs(x) == IF x < 0 THEN -x ELSE x

\* start positions: short lots per strike, LOTS_TO_SELL in all or one less, at
\* most MaxSkew lots away from the target of the lowest price
StartLots(bot) ==
    LET S == Strikes(bot)
        lo == CHOOSE p \in Prices(bot) : \A q \in Prices(bot) : p <= q
        tgt == DistAsMap(get_ce_strike_distribution(bot, lo), S)
        top == (IF bot = "nifty" THEN 1 ELSE 5) + MaxSkew
    IN  {l \in [S -> 0 .. top] :
            /\ Sum(l, S) \in {LOTS_TO_SELL(bot) - 1, LOTS_TO_SELL(bot)}
            /\ Sum([s \in S |-> Abs(l[s] - tgt[s])], S) <= MaxSkew}

NoFrame ==
    [strike |-> 0, attempt |-> 0, cycles |-> 0, order_id |-> 0, ret_to |-> "cycle",
     status |-> "idle", result |-> "None", placed |-> 0, timeouts |-> 0,
     faultsOnly |-> TRUE]

NoLocals == [current_lots |-> 0, dist |-> <<>>, di |-> 1, dj |-> 0]

NoMatcher ==
    \* stale: a buyback of the pair (oi, ei) was left to the for's else clause
    \* in this cycle
    [exit_strikes |-> <<>>, enter_strikes |-> <<>>, oi |-> 1, ei |-> 1,
     order_id |-> 0, cycles |-> 0, iters |-> 0, stale |-> FALSE]

HedgeInit(bot) ==
    /\ h_bot = bot
    /\ h_sellBound \in (IF h_bot = "nifty" THEN {TRUE} ELSE {TRUE, FALSE})
    /\ h_avail \in (IF h_bot = "nifty" THEN {Strikes(h_bot)}
                    ELSE {Strikes(h_bot), Strikes(h_bot) \ {97000}})
    /\ \E l \in StartLots(h_bot) : h_qty = [s \in Strikes(h_bot) |-> -(l[s] * CE_LOT(h_bot))]
    /\ h_orders = <<>>
    /\ h_pc = "cycle"
    /\ h_lastRead = "none"
    /\ hl = NoLocals
    /\ mt = NoMatcher
    /\ ce = NoFrame

-----------------------------------------------------------------------------
(* The broker's side of a LIMIT order *)

OpenOrders == {i \in 1 .. Len(h_orders) : h_orders[i].status = "OPEN"}

\* the order a poll loop is watching: the only order the bot asks the broker for
Watched(i) ==
    \/ h_pc \in {"c_poll", "c_cancel"} /\ ce.order_id = i
    \/ h_pc \in {"m_poll", "m_cancel"} /\ mt.order_id = i

\* an order that has ended and that no poll loop watches is history: the book
\* keeps its side, whether it was filled, and the polls made before its cancel
Archive(o) ==
    IF o.status = "OPEN" THEN o
    ELSE [o EXCEPT !.strike = 0, !.quantity = 0,
                   !.status = IF @ = "COMPLETE" THEN @ ELSE "CLOSED"]

Ended(o, st) == [o EXCEPT !.status = st]

\* the exchange fills a resting order: the position moves by its quantity
Fill ==
    /\ \E i \in OpenOrders :
          /\ h_orders' = [h_orders EXCEPT ![i] =
                              IF Watched(i) THEN Ended(@, "COMPLETE")
                              ELSE Archive(Ended(@, "COMPLETE"))]
          /\ h_qty' = [h_qty EXCEPT ![h_orders[i].strike] =
                          IF h_orders[i].side = "SELL" THEN @ - h_orders[i].quantity
                          ELSE @ + h_orders[i].quantity]
    /\ UNCHANGED <<h_bot, h_sellBound, h_avail, h_pc, h_lastRead, hl, mt, ce>>
    /\ UNCHANGED notHedge

\* the broker or the exchange ends a resting order by itself
Refuse ==
    /\ \E i \in OpenOrders, st \in {"REJECTED", "CANCELLED"} :
          h_orders' = [h_orders EXCEPT ![i] =
                          IF Watched(i) THEN Ended(@, st) ELSE Archive(Ended(@, st))]
    /\ UNCHANGED <<h_bot, h_sellBound, h_avail, h_qty, h_pc, h_lastRead, hl, mt, ce>>
    /\ UNCHANGED notHedge

\* the swap loop is running: at its top, or in the sell call it makes
InSwap == h_pc = "m_top" \/ ce.ret_to = "m_dec"

OrderBound ==
    IF h_bot = "nifty" THEN MaxOrders
    ELSE IF InSwap THEN MaxSwapOrders ELSE MaxEntryOrders

\* kite.place_order(...) of a LIMIT order answers with its order id; cancelAfter
\* is the number of status polls made when kite.cancel_order was called for the
\* order (-1: never called)
NewOrder(side, strike, lots, by) ==
    [side |-> side, strike |-> strike, quantity |-> lots * CE_LOT(h_bot),
     status |-> "OPEN", cancelAfter |-> -1, by |-> by]

-----------------------------------------------------------------------------
(* place_ce_sell_order(kite, strike, expiry_date, lots), called with lots = 1 *)

\* a call, to return to `ret`
CallCe(strike, ret) ==
    ce' = [NoFrame EXCEPT !.strike = strike, !.ret_to = ret, !.status = "running"]

\* every way out of the function is a bare return or the end of the body: None
CeReturn ==
    /\ ce' = [ce EXCEPT !.status = "returned", !.result = "None"]
    /\ h_pc' = ce.ret_to

\* for attempt in range(MAX_ATTEMPTS)
AttemptBudget == MAX_ATTEMPTS

\* a poll loop one cycle short
PollBudgetMut == MAX_WAIT_CYCLES - 1

\* for _ in range(MAX_WAIT_CYCLES)
PollBudget == MAX_WAIT_CYCLES

\* the range is exhausted: "All attempts failed", the function ends
CeExhausted ==
    /\ h_pc = "c_top"
    /\ ~(ce.attempt < AttemptBudget)
    /\ CeReturn
    /\ UNCHANGED <<h_bot, h_sellBound, h_avail, h_qty, h_orders, h_lastRead, hl, mt>>
    /\ UNCHANGED notHedge

\* get_total_ce_lots raises inside the try: except, sleep(5), next attempt
CeReadFault ==
    /\ h_pc = "c_top"
    /\ ce.attempt < AttemptBudget
    /\ h_lastRead' = "raised"
    /\ ce' = [ce EXCEPT !.attempt = @ + 1]
    /\ UNCHANGED <<h_bot, h_sellBound, h_avail, h_qty, h_orders, h_pc, hl, mt>>
    /\ UNCHANGED notHedge

\* if current_total_lots >= LOTS_TO_SELL: "Aborting order", return
CeAbort ==
    /\ h_pc = "c_top"
    /\ ce.attempt < AttemptBudget
    /\ get_total_ce_lots >= LOTS_TO_SELL(h_bot)
    /\ h_lastRead' = "ok"
    /\ ce' = [ce EXCEPT !.status = "returned", !.result = "None", !.faultsOnly = FALSE]
    /\ h_pc' = ce.ret_to
    /\ UNCHANGED <<h_bot, h_sellBound, h_avail, h_qty, h_orders, hl, mt>>
    /\ UNCHANGED notHedge

\* the total is below LOTS_TO_SELL: on to the quote and the order
CeProceed ==
    /\ h_pc = "c_top"
    /\ ce.attempt < AttemptBudget
    /\ get_total_ce_lots < LOTS_TO_SELL(h_bot)
    /\ h_lastRead' = "ok"
    /\ ce' = [ce EXCEPT !.faultsOnly = FALSE]
    /\ h_pc' = "c_place"
    /\ UNCHANGED <<h_bot, h_sellBound, h_avail, h_qty, h_orders, hl, mt>>
    /\ UNCHANGED notHedge

\* kite.ltp raises or answers nothing, or kite.place_order raises: except,
\* sleep(5), next attempt
CePlaceFault ==
    /\ h_pc = "c_place"
    /\ ce' = [ce EXCEPT !.attempt = @ + 1]
    /\ h_pc' = "c_top"
    /\ UNCHANGED <<h_bot, h_sellBound, h_avail, h_qty, h_orders, h_lastRead, hl, mt>>
    /\ UNCHANGED notHedge

\* the SELL LIMIT order is placed; the poll loop starts
CePlace ==
    /\ h_pc = "c_place"
    /\ Len(h_orders) < OrderBound
    /\ h_orders' = Append(h_orders, NewOrder("SELL", ce.strike, 1,
                                             IF ce.ret_to = "m_dec" THEN "matcher" ELSE "entry"))
    /\ ce' = [ce EXCEPT !.order_id = Len(h_orders) + 1, !.cycles = 0, !.placed = @ + 1]
    /\ h_pc' = "c_poll"
    /\ UNCHANGED <<h_bot, h_sellBound, h_avail, h_qty, h_lastRead, hl, mt>>
    /\ UNCHANGED notHedge

\* kite.order_history raises: except, sleep(5), next attempt (the order stays)
CePollFault ==
    /\ h_pc = "c_poll"
    /\ h_orders' = [h_orders EXCEPT ![ce.order_id] = Archive(@)]
    /\ ce' = [ce EXCEPT !.attempt = @ + 1]
    /\ h_pc' = "c_top"
    /\ UNCHANGED <<h_bot, h_sellBound, h_avail, h_qty, h_lastRead, hl, mt>>
    /\ UNCHANGED notHedge

\* status == "COMPLETE": "Order filled", return
CePollComplete ==
    /\ h_pc = "c_poll"
    /\ h_orders[ce.order_id].status = "COMPLETE"
    /\ h_orders' = [h_orders EXCEPT ![ce.order_id] = Archive(@)]
    /\ CeReturn
    /\ UNCHANGED <<h_bot, h_sellBound, h_avail, h_qty, h_lastRead, hl, mt>>
    /\ UNCHANGED notHedge

\* status in ["REJECTED", "CANCELLED"]: raise, except, sleep(5), next attempt
CePollRefused ==
    /\ h_pc = "c_poll"
    /\ h_orders[ce.order_id].status \in {"REJECTED", "CANCELLED"}
    /\ h_orders' = [h_orders EXCEPT ![ce.order_id] = Archive(@)]
    /\ ce' = [ce EXCEPT !.attempt = @ + 1]
    /\ h_pc' = "c_top"
    /\ UNCHANGED <<h_bot, h_sellBound, h_avail, h_qty, h_lastRead, hl, mt>>
    /\ UNCHANGED notHedge

\* any other status: "Waiting for order to fill", sleep(CHECK_INTERVAL); after
\* the last cycle of the range the loop is left for the cancel
CePollWait ==
    /\ h_pc = "c_poll"
    /\ h_orders[ce.order_id].status = "OPEN"
    /\ ce' = [ce EXCEPT !.cycles = @ + 1]
    /\ h_pc' = IF ce.cycles + 1 < PollBudget THEN "c_poll" ELSE "c_cancel"
    /\ UNCHANGED <<h_bot, h_sellBound, h_avail, h_qty, h_orders, h_lastRead, hl, mt>>
    /\ UNCHANGED notHedge

\* a cancel after which the poll loop goes on
AfterCancelMut == "c_poll"

\* after "Cancelled stale order" the try body ends and the for loop goes on
AfterCancel == "c_top"

\* kite.cancel_order is accepted for the resting order
CeCancelOk ==
    /\ h_pc = "c_cancel"
    /\ h_orders[ce.order_id].status = "OPEN"
    /\ h_orders' = [h_orders EXCEPT ![ce.order_id] =
                        Archive([Ended(@, "CANCELLED") EXCEPT !.cancelAfter = ce.cycles])]
    /\ ce' = [ce EXCEPT !.attempt = @ + 1, !.timeouts = @ + 1]
    /\ h_pc' = AfterCancel
    /\ UNCHANGED <<h_bot, h_sellBound, h_avail, h_qty, h_lastRead, hl, mt>>
    /\ UNCHANGED notHedge

\* kite.cancel_order raises (a fault, or the order is no longer open): except,
\* sleep(5), next attempt
CeCancelFault ==
    /\ h_pc = "c_cancel"
    /\ h_orders' = [h_orders EXCEPT ![ce.order_id] =
                        Archive([@ EXCEPT !.cancelAfter = ce.cycles])]
    /\ ce' = [ce EXCEPT !.attempt = @ + 1, !.timeouts = @ + 1]
    /\ h_pc' = "c_top"
    /\ UNCHANGED <<h_bot, h_sellBound, h_avail, h_qty, h_lastRead, hl, mt>>
    /\ UNCHANGED notHedge

-----------------------------------------------------------------------------
(* run_nifty_ce_hedge_bot / run_ce_hedge_bot: the `while True` loop *)

\* current_lots = get_total_ce_lots(kite), the first statement of a cycle
CycleRead ==
    /\ h_pc = "cycle"
    /\ h_lastRead' = "ok"
    /\ hl' = [hl EXCEPT !.current_lots = get_total_ce_lots]
    /\ h_pc' = "ltp"
    /\ UNCHANGED <<h_bot, h_sellBound, h_avail, h_qty, h_orders, mt, ce>>
    /\ UNCHANGED notHedge

\* kite.positions() raises: neither reader nor the loop has a handler
CycleReadFault ==
    /\ h_pc = "cycle"
    /\ h_lastRead' = "raised"
    /\ h_pc' = "crashed"
    /\ UNCHANGED <<h_bot, h_sellBound, h_avail, h_qty, h_orders, hl, mt, ce>>
    /\ UNCHANGED notHedge

\* the futures quote (and, for GOLDM, the instrument list) raises: no handler
CycleQuoteFault ==
    /\ h_pc = "ltp"
    /\ h_pc' = "crashed"
    /\ UNCHANGED <<h_bot, h_sellBound, h_avail, h_qty, h_orders, h_lastRead, hl, mt, ce>>
    /\ UNCHANGED notHedge

\* the target of this cycle
Target(fut_price) ==
    IF h_bot = "nifty" THEN get_ce_strike_distribution(h_bot, fut_price)
    ELSE SelectSeq2(get_ce_strike_distribution(h_bot, fut_price), h_avail)

\* if current_lots < LOTS_TO_SELL: a round of entries over dist.items()
CycleEntry ==
    /\ h_pc = "ltp"
    /\ hl.current_lots < LOTS_TO_SELL(h_bot)
    /\ \E fut_price \in Prices(h_bot) :
          hl' = [hl EXCEPT !.dist = Target(fut_price), !.di = 1, !.dj = 0]
    /\ h_pc' = "entry"
    /\ UNCHANGED <<h_bot, h_sellBound, h_avail, h_qty, h_orders, h_lastRead, mt, ce>>
    /\ UNCHANGED notHedge

\* for _ in range(qty): place_ce_sell_order(kite, strike, expiry, 1)
EntryCall ==
    /\ h_pc = "entry"
    /\ hl.di <= Len(hl.dist)
    /\ hl.dj < hl.dist[hl.di].lots
    /\ h_sellBound
    /\ CallCe(hl.dist[hl.di].strike, "entry_ret")
    /\ h_pc' = "c_top"
    /\ UNCHANGED <<h_bot, h_sellBound, h_avail, h_qty, h_orders, h_lastRead, hl, mt>>
    /\ UNCHANGED notHedge

\* goldm_cehedgebot_15lots.py defines no place_ce_sell_order: the call raises
\* NameError outside any try
EntryNameError ==
    /\ h_pc = "entry"
    /\ hl.di <= Len(hl.dist)
    /\ hl.dj < hl.dist[hl.di].lots
    /\ ~h_sellBound
    /\ h_pc' = "crashed"
    /\ UNCHANGED <<h_bot, h_sellBound, h_avail, h_qty, h_orders, h_lastRead, hl, mt, ce>>
    /\ UNCHANGED notHedge

\* time.sleep(3) after the call
EntrySleep ==
    /\ h_pc = "entry_ret"
    /\ hl' = [hl EXCEPT !.dj = @ + 1]
    /\ ce' = NoFrame
    /\ h_pc' = "entry"
    /\ UNCHANGED <<h_bot, h_sellBound, h_avail, h_qty, h_orders, h_lastRead, mt>>
    /\ UNCHANGED notHedge

\* the inner range is done: the next strike of dist.items()
EntryNext ==
    /\ h_pc = "entry"
    /\ hl.di <= Len(hl.dist)
    /\ hl.dj >= hl.dist[hl.di].lots
    /\ hl' = [hl EXCEPT !.di = @ + 1, !.dj = 0]
    /\ UNCHANGED <<h_bot, h_sellBound, h_avail, h_qty, h_orders, h_pc, h_lastRead, mt, ce>>
    /\ UNCHANGED notHedge

\* dist.items() is exhausted: the end of the cycle
EntryDone ==
    /\ h_pc = "entry"
    /\ hl.di > Len(hl.dist)
    /\ h_pc' = "sleep"
    /\ UNCHANGED <<h_bot, h_sellBound, h_avail, h_qty, h_orders, h_lastRead, hl, mt, ce>>
    /\ UNCHANGED notHedge

\* the strikes of a plan, in the order set(...).union(...) iterates them
Perms(S) ==
    {sq \in [1 .. Cardinality(S) -> S] : \A i, j \in 1 .. Cardinality(S) : i # j => sq[i] # sq[j]}

\* a plan that takes `cur >= tgt` for an exit
ExitsMut(cur, tgt, S) == {s \in S : cur[s] >= tgt[s]}

\* if cur > tgt: the keys of to_exit
Exits(cur, tgt, S) == {s \in S : cur[s] > tgt[s]}

\* elif cur < tgt: the keys of to_enter
Enters(cur, tgt, S) == {s \in S : cur[s] < tgt[s]}

\* to_exit / to_enter of the rebalance branch, as list(d.items())
ToExit(cur, tgt, order) ==
    [i \in 1 .. Len(order) |-> <<order[i], cur[order[i]] - tgt[order[i]]>>]

ToEnter(cur, tgt, order) ==
    [i \in 1 .. Len(order) |-> <<order[i], tgt[order[i]] - cur[order[i]]>>]

RECURSIVE PlanLots(_)
PlanLots(plan) == IF plan = <<>> THEN 0 ELSE plan[1][2] + PlanLots(Tail(plan))

\* else: the rebalance branch. NIFTY prints the two plans; GOLDM starts the
\* matcher with ei, oi = 0, 0
CycleRebalance ==
    /\ h_pc = "ltp"
    /\ hl.current_lots >= LOTS_TO_SELL(h_bot)
    /\ \E fut_price \in Prices(h_bot) :
          LET dist == Target(fut_price)
              S == Strikes(h_bot)
              held == get_existing_ce_positions
              cur == [s \in S |-> IF s \in DOMAIN held THEN held[s] ELSE 0]
              tgt == DistAsMap(dist, S)
              outs == Exits(cur, tgt, S)
              ins == Enters(cur, tgt, S)
          IN  /\ hl' = [hl EXCEPT !.dist = dist]
              /\ \E xo \in Perms(outs), eo \in Perms(ins) :
                    mt' = [NoMatcher EXCEPT !.exit_strikes = ToExit(cur, tgt, xo),
                                            !.enter_strikes = ToEnter(cur, tgt, eo)]
    /\ h_lastRead' = "ok"
    /\ h_pc' = IF h_bot = "nifty" THEN "sleep" ELSE "m_top"
    /\ UNCHANGED <<h_bot, h_sellBound, h_avail, h_qty, h_orders, ce>>
    /\ UNCHANGED notHedge

\* get_existing_ce_positions(kite) of the rebalance branch raises: no handler
CycleRebalanceFault ==
    /\ h_pc = "ltp"
    /\ hl.current_lots >= LOTS_TO_SELL(h_bot)
    /\ h_lastRead' = "raised"
    /\ h_pc' = "crashed"
    /\ UNCHANGED <<h_bot, h_sellBound, h_avail, h_qty, h_orders, hl, mt, ce>>
    /\ UNCHANGED notHedge

\* time.sleep(REBALANCE_INTERVAL), then the next cycle, which sets every local
\* again before it reads it
CycleSleep ==
    /\ h_pc \in {"sleep", "m_done"}
    /\ h_pc' = "cycle"
    /\ hl' = NoLocals
    /\ mt' = NoMatcher
    /\ UNCHANGED <<h_bot, h_sellBound, h_avail, h_qty, h_orders, h_lastRead, ce>>
    /\ UNCHANGED notHedge

-----------------------------------------------------------------------------
(* run_ce_hedge_bot: the greedy 1-lot swap loop of the rebalance branch *)

\* while oi < len(exit_strikes) and ei < len(enter_strikes)
MatchCondition == mt.oi <= Len(mt.exit_strikes) /\ mt.ei <= Len(mt.enter_strikes)

Count(n) == IF n < IterCap THEN n + 1 ELSE n

\* the loop condition is false: the branch ends
MatchExit ==
    /\ h_pc = "m_top"
    /\ ~MatchCondition
    /\ h_pc' = "m_done"
    /\ UNCHANGED <<h_bot, h_sellBound, h_avail, h_qty, h_orders, h_lastRead, hl, mt, ce>>
    /\ UNCHANGED notHedge

\* kite.ltp or kite.place_order of the buyback raises: except, print, and the
\* while loop tests its condition again
MatchBuyFault ==
    /\ h_pc = "m_top"
    /\ MatchCondition
    /\ mt' = [mt EXCEPT !.iters = Count(@)]
    /\ UNCHANGED <<h_bot, h_sellBound, h_avail, h_qty, h_orders, h_pc, h_lastRead, hl, ce>>
    /\ UNCHANGED notHedge

\* the BUY LIMIT order of 1 lot on the exit strike is placed
MatchBuy ==
    /\ h_pc = "m_top"
    /\ MatchCondition
    /\ Len(h_orders) < OrderBound
    /\ h_orders' = Append(h_orders, NewOrder("BUY", mt.exit_strikes[mt.oi][1], 1, "matcher"))
    /\ mt' = [mt EXCEPT !.iters = Count(@), !.order_id = Len(h_orders) + 1, !.cycles = 0]
    /\ h_pc' = "m_poll"
    /\ UNCHANGED <<h_bot, h_sellBound, h_avail, h_qty, h_lastRead, hl, ce>>
    /\ UNCHANGED notHedge

\* kite.order_history raises or is empty: except, back to the loop condition
MatchPollFault ==
    /\ h_pc = "m_poll"
    /\ h_orders' = [h_orders EXCEPT ![mt.order_id] = Archive(@)]
    /\ h_pc' = "m_top"
    /\ UNCHANGED <<h_bot, h_sellBound, h_avail, h_qty, h_lastRead, hl, mt, ce>>
    /\ UNCHANGED notHedge

\* status == "COMPLETE": break
MatchPollComplete ==
    /\ h_pc = "m_poll"
    /\ h_orders[mt.order_id].status = "COMPLETE"
    /\ h_orders' = [h_orders EXCEPT ![mt.order_id] = Archive(@)]
    /\ h_pc' = "m_sell"
    /\ UNCHANGED <<h_bot, h_sellBound, h_avail, h_qty, h_lastRead, hl, mt, ce>>
    /\ UNCHANGED notHedge

\* status in ["REJECTED", "CANCELLED"]: raise, except, back to the condition
MatchPollRefused ==
    /\ h_pc = "m_poll"
    /\ h_orders[mt.order_id].status \in {"REJECTED", "CANCELLED"}
    /\ h_orders' = [h_orders EXCEPT ![mt.order_id] = Archive(@)]
    /\ h_pc' = "m_top"
    /\ UNCHANGED <<h_bot, h_sellBound, h_avail, h_qty, h_lastRead, hl, mt, ce>>
    /\ UNCHANGED notHedge

\* else: "Waiting for buyback fill", sleep; the for's else clause follows the
\* last cycle
MatchPollWait ==
    /\ h_pc = "m_poll"
    /\ h_orders[mt.order_id].status = "OPEN"
    /\ mt' = [mt EXCEPT !.cycles = @ + 1]
    /\ h_pc' = IF mt.cycles + 1 < PollBudget THEN "m_poll" ELSE "m_cancel"
    /\ UNCHANGED <<h_bot, h_sellBound, h_avail, h_qty, h_orders, h_lastRead, hl, ce>>
    /\ UNCHANGED notHedge

\* a for's else clause that falls through to the sell
AfterStaleBuyMut == "m_sell"

\* the `continue` that ends the for's else clause: the loop condition is next
AfterStaleBuy == "m_top"

\* kite.cancel_order, "Cancelled stale buy order", continue: the same pair again
MatchCancelOk ==
    /\ h_pc = "m_cancel"
    /\ h_orders[mt.order_id].status = "OPEN"
    /\ h_orders' = [h_orders EXCEPT ![mt.order_id] =
                        Archive([Ended(@, "CANCELLED") EXCEPT !.cancelAfter = mt.cycles])]
    /\ mt' = [mt EXCEPT !.stale = TRUE]
    /\ h_pc' = AfterStaleBuy
    /\ UNCHANGED <<h_bot, h_sellBound, h_avail, h_qty, h_lastRead, hl, ce>>
    /\ UNCHANGED notHedge

\* kite.cancel_order raises: except, back to the loop condition
MatchCancelFault ==
    /\ h_pc = "m_cancel"
    /\ h_orders' = [h_orders EXCEPT ![mt.order_id] =
                        Archive([@ EXCEPT !.cancelAfter = mt.cycles])]
    /\ mt' = [mt EXCEPT !.stale = TRUE]
    /\ h_pc' = "m_top"
    /\ UNCHANGED <<h_bot, h_sellBound, h_avail, h_qty, h_lastRead, hl, ce>>
    /\ UNCHANGED notHedge

\* time.sleep(5); place_ce_sell_order(kite, enter_strike, expiry, 1)
MatchSell ==
    /\ h_pc = "m_sell"
    /\ h_sellBound
    /\ CallCe(mt.enter_strikes[mt.ei][1], "m_dec")
    /\ h_pc' = "c_top"
    /\ UNCHANGED <<h_bot, h_sellBound, h_avail, h_qty, h_orders, h_lastRead, hl, mt>>
    /\ UNCHANGED notHedge

\* the name place_ce_sell_order is not defined in this script: NameError, caught
\* by `except Exception`, and the while loop tests its condition again
MatchSellNameError ==
    /\ h_pc = "m_sell"
    /\ ~h_sellBound
    /\ h_pc' = "m_top"
    /\ UNCHANGED <<h_bot, h_sellBound, h_avail, h_qty, h_orders, h_lastRead, hl, mt, ce>>
    /\ UNCHANGED notHedge

\* both entries lose one lot, whatever the sell call did; an entry at 0 is passed
\* and another pair stands at (oi, ei)
MatchDecrement ==
    /\ h_pc = "m_dec"
    /\ LET exit_qty == mt.exit_strikes[mt.oi][2] - 1
           enter_qty == mt.enter_strikes[mt.ei][2] - 1
       IN  mt' = [mt EXCEPT !.exit_strikes[mt.oi][2] = exit_qty,
                            !.enter_strikes[mt.ei][2] = enter_qty,
                            !.oi = IF exit_qty = 0 THEN @ + 1 ELSE @,
                            !.ei = IF enter_qty = 0 THEN @ + 1 ELSE @,
                            !.stale = IF exit_qty = 0 \/ enter_qty = 0 THEN FALSE ELSE @]
    /\ ce' = NoFrame
    /\ h_pc' = "m_top"
    /\ UNCHANGED <<h_bot, h_sellBound, h_avail, h_qty, h_orders, h_lastRead, hl>>
    /\ UNCHANGED notHedge

\* the NIFTY script: the loop, the executor and the broker
HedgeNext ==
    \/ CycleRead \/ CycleReadFault \/ CycleQuoteFault \/ CycleEntry
    \/ EntryCall \/ EntrySleep \/ EntryNext \/ EntryDone
    \/ CycleRebalance \/ CycleRebalanceFault \/ CycleSleep
    \/ CeExhausted \/ CeReadFault \/ CeAbort \/ CeProceed
    \/ CePlaceFault \/ CePlace
    \/ CePollFault \/ CePollComplete \/ CePollRefused \/ CePollWait
    \/ CeCancelOk \/ CeCancelFault
    \/ Fill \/ Refuse

\* the GOLDM script: the same, the unbound name and the swap loop
MatchNext ==
    \/ CycleRead \/ CycleReadFault \/ CycleQuoteFault \/ CycleEntry
    \/ EntryCall \/ EntryNameError \/ EntrySleep \/ EntryNext \/ EntryDone
    \/ CycleRebalance \/ CycleRebalanceFault \/ CycleSleep
    \/ CeExhausted \/ CeReadFault \/ CeAbort \/ CeProceed
    \/ CePlaceFault \/ CePlace
    \/ CePollFault \/ CePollComplete \/ CePollRefused \/ CePollWait
    \/ CeCancelOk \/ CeCancelFault
    \/ MatchExit \/ MatchBuyFault \/ MatchBuy
    \/ MatchPollFault \/ MatchPollComplete \/ MatchPollRefused \/ MatchPollWait
    \/ MatchCancelOk \/ MatchCancelFault
    \/ MatchSell \/ MatchSellNameError \/ MatchDecrement
    \/ Fill \/ Refuse

-----------------------------------------------------------------------------
(* get_ce_strike_distribution(fut_price), called on the quotes of a price range *)

\* bounds: the quotes are FloorPrice + k ticks, k in 0 .. MaxTicks
MaxTicks == 2000

\* the lowest quote, in paise, and the step between two quotes: 0.05 for the
\* NIFTY future, 1 rupee for the GOLDM future
FloorPrice(bot) == IF bot = "nifty" THEN 2450000 ELSE 9450000
Tick(bot) == IF bot = "nifty" THEN 5 ELSE 100

\* last_price as kite.ltp answers it, in paise
Quotes(bot) == {FloorPrice(bot) + k * Tick(bot) : k \in 0 .. MaxTicks}

DistInit ==
    /\ p_fn = "get_ce_strike_distribution"
    /\ \E bot \in {"nifty", "goldm"} : \E fut_price \in Quotes(bot) :
          p_arg = [bot |-> bot, fut_price |-> fut_price]
    /\ p_ret = <<>>
    /\ p_pc = "called"

\* the body of the function: the dict it returns
DistReturn ==
    /\ p_pc = "called"
    /\ p_ret' = get_ce_strike_distribution(p_arg.bot, p_arg.fut_price)
    /\ p_pc' = "returned"
    /\ UNCHANGED <<p_fn, p_arg>>
    /\ UNCHANGED notPure

DistNext == DistReturn

-----------------------------------------------------------------------------
(* The NIFTY lot size on the way out (place_kite_order) and back             *)
(* (get_current_position), for the contract of any month                     *)

\* bounds: contracts of FirstYear .. FirstYear + MaxYears, orders of 1 .. MaxLots lots
FirstYear == 2024
MaxYears == 2
MaxLots == 3

LotInit ==
    /\ p_fn = "get_nifty_lot_size"
    /\ \E year \in FirstYear .. (FirstYear + MaxYears), month \in 1 .. 12, lots \in 1 .. MaxLots :
          p_arg = [symbol |-> get_contract_symbol(year, month), year |-> year,
                   month |-> month, lots |-> lots]
    /\ p_ret = <<>>
    /\ p_pc = "called"

\* place_kite_order: full_qty = quantity * lot_size; the order fills on a flat
\* account, so the net position of the symbol is full_qty
LotOrder ==
    /\ p_fn = "get_nifty_lot_size" /\ p_pc = "called"
    /\ p_ret' = [quantity |-> OrderQuantity("nifty", p_arg.symbol, p_arg.lots)]
    /\ p_pc' = "filled"
    /\ UNCHANGED <<p_fn, p_arg>>
    /\ UNCHANGED notPure

\* get_current_position: lots += p['quantity'] // lot_size
LotRead ==
    /\ p_fn = "get_nifty_lot_size" /\ p_pc = "filled"
    /\ p_ret' = [quantity |-> p_ret.quantity,
                 lots |-> LotsOfQuantity("nifty", p_arg.symbol, p_ret.quantity)]
    /\ p_pc' = "returned"
    /\ UNCHANGED <<p_fn, p_arg>>
    /\ UNCHANGED notPure

LotNext == LotOrder \/ LotRead

-----------------------------------------------------------------------------
(* get_last_thursday(year, month), called for the months of a range of years *)

\* bound: the years are FirstYear .. FirstYear + MaxThursdayYears
MaxThursdayYears == 6

ThursdayInit ==
    /\ p_fn = "get_last_thursday"
    /\ \E year \in FirstYear .. (FirstYear + MaxThursdayYears), month \in 1 .. 12 :
          p_arg = [year |-> year, month |-> month]
    /\ p_ret = <<>>
    /\ p_pc = "called"

\* the body of the function: the date it returns, as a day number
ThursdayReturn ==
    /\ p_fn = "get_last_thursday" /\ p_pc = "called"
    /\ p_ret' = get_last_thursday(p_arg.year, p_arg.month)
    /\ p_pc' = "returned"
    /\ UNCHANGED <<p_fn, p_arg>>
    /\ UNCHANGED notPure

ThursdayNext == ThursdayReturn

-----------------------------------------------------------------------------
(* The choice of the contract month, for a range of expiries, holiday lists and
   days: expiry, rollover, days_to_expiry and the month of new_contract as a
   cycle of the monitors computes them *)

\* bound: `today` is at most MaxLookback days before the expiry
MaxLookback == 12

SelectInit ==
    /\ p_fn = "new_contract"
    /\ \E expiry \in CalExpiries, holidays \in CalHolidaySets,
          today \in (CalFirstExpiry - MaxLookback) .. (CalFirstExpiry + MaxExpirySpan) :
          /\ is_trading_day(expiry, holidays)
          /\ today <= expiry /\ expiry - today <= MaxLookback
          /\ p_arg = [expiry |-> expiry, holidays |-> holidays, today |-> today]
    /\ p_ret = <<>>
    /\ p_pc = "called"

\* rollover = get_rollover_date(expiry); days_to_expiry = (expiry - today).days;
\* the month handed to get_contract_symbol
SelectReturn ==
    /\ p_fn = "new_contract" /\ p_pc = "called"
    /\ LET rollover == get_rollover_date(p_arg.expiry, p_arg.holidays)
       IN  p_ret' = [rollover |-> rollover,
                     days_to_expiry |-> p_arg.expiry - p_arg.today,
                     month |-> SelectMonth(p_arg.today, p_arg.expiry, rollover)]
    /\ p_pc' = "returned"
    /\ UNCHANGED <<p_fn, p_arg>>
    /\ UNCHANGED notPure

SelectNext == SelectReturn

-----------------------------------------------------------------------------
(* Specifications: each runs one machine and parks the others *)

CalIdle ==
    /\ cal_pc = "idle" /\ cal_expiry = 0 /\ cal_holidays = {} /\ cal_day = 0
    /\ cal_count = 0

FutIdle ==
    /\ f_bot = "nifty" /\ clk_day = 0 /\ clk_phase = "post"
    /\ f_pos = [s \in Contracts |-> 0] /\ f_last = get_contract_symbol(2025, 7)
    /\ f_faults = 0 /\ f_pc = "idle" /\ f_batch = 0
    /\ f_today = 0 /\ f_new_contract = NoSymbol /\ f_current_lots = 0
    /\ f_current_contract = NoSymbol /\ f_i = 0 /\ f_trace = <<>> /\ f_N = 0
    /\ f_allOk = TRUE /\ f_start = [s \in Contracts |-> 0] /\ f_paused = FALSE
    /\ gp_attempt = 1 /\ gp_ret_to = "decide"
    /\ k_symbol = NoSymbol /\ k_lots = 0 /\ k_txn = "BUY" /\ k_attempt = 1
    /\ k_made = 0 /\ k_ret = TRUE /\ k_ret_to = "cycle"

HedgeIdle ==
    /\ h_bot = "nifty" /\ h_sellBound = TRUE /\ h_avail = {}
    /\ h_qty = [s \in Strikes("nifty") |-> 0] /\ h_orders = <<>> /\ h_pc = "idle"
    /\ h_lastRead = "none"
    /\ hl = NoLocals
    /\ mt = NoMatcher /\ ce = NoFrame

PureIdle == p_fn = "none" /\ p_arg = <<>> /\ p_ret = <<>> /\ p_pc = "idle"

InitCal == CalInit /\ FutIdle /\ HedgeIdle /\ PureIdle
SpecCal == InitCal /\ [][CalNext]_vars

InitFut == FutInit /\ CalIdle /\ HedgeIdle /\ PureIdle
SpecFut == InitFut /\ [][FutNext]_vars

InitHedge == HedgeInit("nifty") /\ CalIdle /\ FutIdle /\ PureIdle
SpecHedge == InitHedge /\ [][HedgeNext]_vars

InitMatch == HedgeInit("goldm") /\ CalIdle /\ FutIdle /\ PureIdle
SpecMatch == InitMatch /\ [][MatchNext]_vars

InitDist == DistInit /\ CalIdle /\ FutIdle /\ HedgeIdle
SpecDist == InitDist /\ [][DistNext]_vars

InitThursday == ThursdayInit /\ CalIdle /\ FutIdle /\ HedgeIdle
SpecThursday == InitThursday /\ [][ThursdayNext]_vars

InitLot == CalIdle /\ FutIdle /\ HedgeIdle /\ LotInit
SpecLot == InitLot /\ [][LotNext]_vars

InitSelect == SelectInit /\ CalIdle /\ FutIdle /\ HedgeIdle
SpecSelect == InitSelect /\ [][SelectNext]_vars

-----------------------------------------------------------------------------
(* C7 *)

TradingDaysIn(from, to, holidays) ==
    Cardinality({d \in from .. (to - 1) : d % 7 \notin {5, 6} /\ ~(d \in holidays)})

\* C7: the date get_rollover_date returns is strictly before the expiry, is a
\* trading day, and exactly 6 trading days lie in [returned, expiry); the
\* step-by-step walk and the function agree.
C7_RolloverDate ==
    cal_pc = "done" =>
        /\ cal_day < cal_expiry
        /\ TradingDaysIn(cal_day, cal_expiry, cal_holidays) = 6
        /\ cal_day % 7 \notin {5, 6} /\ cal_day \notin cal_holidays
        /\ get_rollover_date(cal_expiry, cal_holidays) = cal_day

\* a walk that had to skip a weekend and a holiday has returned
C7_Witness ==
    /\ cal_pc = "done"
    /\ cal_holidays # {}
    /\ \E h \in cal_holidays : cal_day < h /\ h < cal_expiry /\ h % 7 < 5
    /\ cal_expiry - cal_day > 8

-----------------------------------------------------------------------------
(* C1, C8: the futures monitor *)

\* the monitor is between "Rollover triggered" and "Rollover complete"
InRollover ==
    \/ f_pc \in {"roll_loop", "roll_buy", "roll_sleep"}
    \/ f_pc = "kite" /\ k_ret_to \in {"roll_buy", "roll_sleep"}

\* lots held long at the broker, over both contracts of the underlying
LongLots(s) ==
    IF f_pos[s] > 0
    THEN (IF f_bot = "nifty" THEN f_pos[s] \div 75 ELSE f_pos[s])
    ELSE 0

TotalHeld == LongLots(get_contract_symbol(2025, 6)) + LongLots(get_contract_symbol(2025, 7))

\* C1: outside a rollover the lots held over all contracts of the underlying
\* never exceed TOTAL_LOTS, whatever the gateway does.
C1_TotalWithinTarget ==
    (f_pc # "idle" /\ ~InRollover) => TotalHeld <= TOTAL_LOTS(f_bot)

ExpectedEvent(j) ==
    IF j % 3 = 1 THEN [ev |-> "SELL", symbol |-> f_trace[1].symbol, lots |-> 1]
    ELSE IF j % 3 = 2 THEN [ev |-> "BUY", symbol |-> f_trace[2].symbol, lots |-> 1]
    ELSE [ev |-> "sleep"]

\* C8: a rollover triggered with N lots read makes its calls in the order
\* sell 1 old, buy 1 new, sleep(STAGGER_DELAY), N times over and no more; it
\* ends only after the N-th pair, and when every order was accepted N lots
\* have moved from the old contract to the new one.
C8_RolloverPairs ==
    /\ \A j \in 1 .. Len(f_trace) : f_trace[j] = ExpectedEvent(j)
    /\ Len(f_trace) >= 2 => f_trace[1].symbol # f_trace[2].symbol
    /\ Len(f_trace) <= 3 * f_N
    /\ InRollover =>
          /\ f_N > 0
          /\ Len(f_trace) >= 1 => f_trace[1].symbol = f_current_contract
          /\ Len(f_trace) >= 2 => f_trace[2].symbol = f_new_contract
    /\ (f_pc # "idle" /\ ~InRollover) => Len(f_trace) = 3 * f_N
    /\ (f_pc = "roll_loop" /\ Len(f_trace) = 3 * f_N /\ f_allOk) =>
          /\ f_pos[f_current_contract] =
                f_start[f_current_contract] - OrderQuantity(f_bot, f_current_contract, f_N)
          /\ f_pos[f_new_contract] =
                f_start[f_new_contract] + OrderQuantity(f_bot, f_new_contract, f_N)

\* a rollover of 3 lots has ended after 3 accepted pairs
C8_Witness ==
    /\ f_pc = "cycle" /\ f_N = 3 /\ Len(f_trace) = 9 /\ f_allOk
    /\ f_pos[get_contract_symbol(2025, 6)] = 0
    /\ f_pos[get_contract_symbol(2025, 7)] = OrderQuantity(f_bot, get_contract_symbol(2025, 7), 3)

-----------------------------------------------------------------------------
(* C2 .. C6: the LIMIT order executor and the hedge loop *)

\* what place_ce_sell_order returns after "Order filled"
ReturnOfFill == "None"

\* C2: when the gateway fails every call of one submit call, the call makes
\* exactly MAX_ATTEMPTS attempts and returns to its caller an outcome that tells
\* the failure (one a filled order does not return).
C2_SubmitFailureOutcome ==
    (ce.status = "returned" /\ ce.faultsOnly) =>
        (ce.attempt = MAX_ATTEMPTS /\ ce.result # ReturnOfFill)

\* C3: a LIMIT order whose status stays non-terminal is polled exactly
\* MAX_WAIT_CYCLES times and then cancelled: a cancel request is only ever made
\* after exactly MAX_WAIT_CYCLES polls of the order, a poll loop never makes more
\* polls, and after the last poll the next call is cancel_order.
C3_PollsThenCancel ==
    /\ \A i \in 1 .. Len(h_orders) : h_orders[i].cancelAfter \in {-1, MAX_WAIT_CYCLES}
    /\ h_pc = "c_poll" => ce.cycles < MAX_WAIT_CYCLES
    /\ h_pc = "m_poll" => mt.cycles < MAX_WAIT_CYCLES
    /\ h_pc = "c_cancel" => ce.cycles = MAX_WAIT_CYCLES
    /\ h_pc = "m_cancel" => mt.cycles = MAX_WAIT_CYCLES
    /\ \A i \in 1 .. Len(h_orders) :
          (Watched(i) /\ h_pc \in {"c_cancel", "m_cancel"}) => h_orders[i].cancelAfter = -1

\* an order was polled MAX_WAIT_CYCLES times, stayed open and was cancelled
C3_Witness ==
    \E i \in 1 .. Len(h_orders) :
        h_orders[i].cancelAfter = MAX_WAIT_CYCLES /\ h_orders[i].status = "CLOSED"

C5_LoopNeverEnds == h_pc # "crashed"

\* C6: no call of a position reader ends by raising to its caller.
C6_ReadersNeverRaise == h_lastRead # "raised"

-----------------------------------------------------------------------------
(* C9, C10: the greedy matcher *)

Filled(side, by) ==
    {i \in 1 .. Len(h_orders) :
        /\ h_orders[i].side = side /\ h_orders[i].by = by
        /\ h_orders[i].status = "COMPLETE"}

\* lots the matcher bought back on exit strikes, lots it sold on enter strikes
Bought == Cardinality(Filled("BUY", "matcher"))
Sold == Cardinality(Filled("SELL", "matcher"))

C10_MatcherBound ==
    mt.iters <= Len(mt.exit_strikes) + Len(mt.enter_strikes)

-----------------------------------------------------------------------------
(* C11 *)

\* C11: in a rebalance cycle, once a buyback of the pair at (oi, ei) has timed
\* out (its poll loop ran to the for's else clause), no further buyback is placed
\* for that pair in the same cycle: no poll loop watches an order of a pair
\* that already had a stale buyback.
C11_TimedOutPairAbandoned == h_pc \in {"m_poll", "m_cancel"} => ~mt.stale

-----------------------------------------------------------------------------
(* C12 *)

\* the buyback placed last before order i, 0 when there is none
BuyBefore(i) ==
    LET B == {j \in 1 .. (i - 1) : h_orders[j].by = "matcher" /\ h_orders[j].side = "BUY"}
    IN  IF B = {} THEN 0 ELSE CHOOSE j \in B : \A k \in B : k <= j

\* the swap loop is at its sell: before the call, or inside it
AtSwapSell == h_pc = "m_sell" \/ (ce.ret_to = "m_dec" /\ ce.status = "running")

\* C12: in every swap the sell on the enter strike comes only after the buyback
\* of the same swap was seen COMPLETE: while the loop is at its sell, the
\* buyback it last placed is COMPLETE, and every SELL order of the swap loop
\* in the book has a buyback before it, the last of which is COMPLETE (never
\* still open, rejected, cancelled or stale).
C12_SellAfterFilledBuy ==
    /\ AtSwapSell =>
          /\ mt.order_id \in 1 .. Len(h_orders)
          /\ h_orders[mt.order_id].side = "BUY"
          /\ h_orders[mt.order_id].status = "COMPLETE"
    /\ \A i \in 1 .. Len(h_orders) :
          (h_orders[i].by = "matcher" /\ h_orders[i].side = "SELL") =>
              /\ BuyBefore(i) # 0
              /\ h_orders[BuyBefore(i)].status = "COMPLETE"

\* a swap whose buyback filled and whose SELL order is in the book
C12_Witness ==
    \E i \in 1 .. Len(h_orders) :
        /\ h_orders[i].by = "matcher" /\ h_orders[i].side = "SELL"
        /\ BuyBefore(i) # 0
        /\ h_orders[BuyBefore(i)].status = "COMPLETE"

-----------------------------------------------------------------------------
(* C13 *)

\* the lots a plan (a list of (strike, lots) items) gives a strike; 0 when the
\* strike is not a key of the plan
PlanQty(plan, s) ==
    LET K == {k \in 1 .. Len(plan) : plan[k][1] = s}
    IN  IF K = {} THEN 0 ELSE plan[CHOOSE k \in K : TRUE][2]

InPlan(plan, s) == \E k \in 1 .. Len(plan) : plan[k][1] = s

\* a list of items with no key twice
IsDict(plan) == \A j, k \in 1 .. Len(plan) : plan[j][1] = plan[k][1] => j = k

\* to_exit and to_enter are the plan of (cur, tgt) over the strikes S
IsPlanOf(cur, tgt, S, to_exit, to_enter) ==
    /\ IsDict(to_exit) /\ IsDict(to_enter)
    /\ \A k \in 1 .. Len(to_exit) : to_exit[k][1] \in S
    /\ \A k \in 1 .. Len(to_enter) : to_enter[k][1] \in S
    /\ \A s \in S :
          /\ InPlan(to_exit, s) <=> cur[s] > tgt[s]
          /\ InPlan(to_enter, s) <=> cur[s] < tgt[s]
          /\ InPlan(to_exit, s) => PlanQty(to_exit, s) = cur[s] - tgt[s]
          /\ InPlan(to_enter, s) => PlanQty(to_enter, s) = tgt[s] - cur[s]
          /\ cur[s] = tgt[s] => ~InPlan(to_exit, s) /\ ~InPlan(to_enter, s)
          /\ ~(InPlan(to_exit, s) /\ InPlan(to_enter, s))
    /\ (\A s \in S : cur[s] = tgt[s]) => to_exit = <<>> /\ to_enter = <<>>

\* the positions read at the rebalance, with 0 for a strike not held
CurrentAt(S) ==
    [s \in S |-> IF s \in DOMAIN get_existing_ce_positions
                 THEN get_existing_ce_positions[s] ELSE 0]

\* C13: the rebalance branch computes, from the positions it reads and the
\* target of the cycle, to_exit = the strikes with cur > tgt at cur - tgt lots
\* and to_enter = the strikes with cur < tgt at tgt - cur lots; a strike
\* with cur = tgt is in neither, no strike is in both, and both are empty when
\* the positions are the target.
C13_PlanIsDifference ==
    [][(h_pc = "ltp" /\ h_pc' \in {"m_top", "sleep"}) =>
          IsPlanOf(CurrentAt(Strikes(h_bot)), DistAsMap(hl'.dist, Strikes(h_bot)),
                   Strikes(h_bot), mt'.exit_strikes, mt'.enter_strikes)]_vars

\* a plan just computed that exits one strike, enters another and leaves
\* a third, held at its target, alone
C13_Witness ==
    /\ h_pc = "m_top" /\ mt.iters = 0 /\ h_orders = <<>>
    /\ mt.exit_strikes # <<>> /\ mt.enter_strikes # <<>>
    /\ \E s \in Strikes(h_bot) :
          /\ CurrentAt(Strikes(h_bot))[s] > 0
          /\ ~InPlan(mt.exit_strikes, s) /\ ~InPlan(mt.enter_strikes, s)

-----------------------------------------------------------------------------
(* C14 *)

\* the strike step of a bot, in rupees, and the offsets of its three strikes
StrikeStep(bot) == IF bot = "nifty" THEN 100 ELSE 1000
Offsets(bot) == IF bot = "nifty" THEN <<300, 400, 500>> ELSE <<1000, 2000, 3000>>

\* m (rupees) is the smallest multiple of step at or above the price (paise)
IsCeiling(m, step, price) ==
    /\ m % step = 0
    /\ m * 100 >= price
    /\ (m - step) * 100 < price

\* C14: for every quote p, whole or not, the base of the distribution is the
\* smallest multiple of the strike step at or above p: the strikes are base
\* plus the fixed offsets and every strike is above p; at 24560 (step 100) the
\* distribution is {24900: 1, 25000: 1, 25100: 1}.
C14_BaseIsCeiling ==
    (p_fn = "get_ce_strike_distribution" /\ p_pc = "returned") =>
        LET bot == p_arg.bot
            base == p_ret[1].strike - Offsets(bot)[1]
        IN  /\ Len(p_ret) = 3
            /\ IsCeiling(base, StrikeStep(bot), p_arg.fut_price)
            /\ \A i \in 1 .. 3 :
                  /\ p_ret[i].strike = base + Offsets(bot)[i]
                  /\ p_ret[i].strike * 100 > p_arg.fut_price
            /\ (bot = "nifty" /\ p_arg.fut_price = 2456000) =>
                  p_ret = <<[strike |-> 24900, lots |-> 1], [strike |-> 25000, lots |-> 1],
                            [strike |-> 25100, lots |-> 1]>>

-----------------------------------------------------------------------------
(* C15 *)

\* the cycle has computed its target `dist`
HasTarget == h_pc \notin {"idle", "cycle", "ltp", "crashed"}

\* the lots of a distribution, over its strikes
DistLots(dist) == Sum([i \in 1 .. Len(dist) |-> dist[i].lots], 1 .. Len(dist))

\* C15: in every cycle the target `dist` used by the entry round and by the
\* rebalance plan holds LOTS_TO_SELL lots in all, the same number of lots on
\* each of its strikes.
C15_TargetIsHedgeSize ==
    HasTarget =>
        /\ DistLots(hl.dist) = LOTS_TO_SELL(h_bot)
        /\ \A i, j \in 1 .. Len(hl.dist) : hl.dist[i].lots = hl.dist[j].lots

-----------------------------------------------------------------------------
(* C16 *)

\* the staggered-entry loop is inside its place_kite_order call
StagBuying == f_pc = "kite" /\ k_ret_to = "stag_sleep"

\* C16: in the staggered-entry loop the lots a buy is decided on are the lots
\* get_current_position returned in the same iteration, after the buy before
\* it: the live holdings of that moment (0 when the read failed); the buy is
\* for at least 1 and at most min(LOTS_PER_ENTRY, TOTAL_LOTS - lots read)
\* lots, and there is no buy when the lots read are TOTAL_LOTS or more.
C16_BuyAfterFreshRead ==
    /\ (f_pc = "stag_check" \/ StagBuying) =>
          f_current_lots \in {HeldLots, ReadFaultResult[1]}
    /\ StagBuying =>
          /\ k_txn = "BUY"
          /\ f_current_lots < TOTAL_LOTS(f_bot)
          /\ k_lots >= 1
          /\ k_lots <= LOTS_PER_ENTRY(f_bot)
          /\ k_lots <= TOTAL_LOTS(f_bot) - f_current_lots

\* a buy of fewer lots than a batch, decided on the lots a read found held
C16_Witness ==
    /\ StagBuying
    /\ f_current_lots = HeldLots /\ f_current_lots > 0
    /\ k_lots < LOTS_PER_ENTRY(f_bot)
    /\ k_lots = TOTAL_LOTS(f_bot) - f_current_lots

-----------------------------------------------------------------------------
(* C17 *)

\* the monitor is inside its staggered-entry loop
InStagLoop ==
    \/ f_pc \in {"stag_top", "stag_check", "stag_sleep"}
    \/ f_pc = "read" /\ gp_ret_to = "stag_check"
    \/ StagBuying

\* C17: once the staggered-entry loop has found the clock inside the 09:00-09:05
\* window, the loop is left: the monitor is no longer in it and it buys no
\* further batch.
C17_BlackoutEndsLoop == f_paused => ~InStagLoop

-----------------------------------------------------------------------------
(* C18 *)

\* C18: a cycle of the futures monitor that begins with the clock inside the
\* 09:00-09:05 window reads no position, decides nothing and places no order:
\* its only step is the sleep and the `continue` to the next cycle, which is
\* under the same rule as long as the window lasts.
C18_BlackoutCycleIdle ==
    [][(CycleRuns /\ clk_phase = "blackout") =>
          /\ f_pc' = "cycle"
          /\ f_pos' = f_pos
          /\ f_faults' = f_faults
          /\ k_made' = k_made
          /\ f_trace' = f_trace
          /\ <<f_new_contract, f_current_lots, f_current_contract>>' =
                <<f_new_contract, f_current_lots, f_current_contract>>]_vars

\* the first cycle of a run began inside the window and the second begins
\* after it: nothing was read, decided or ordered
C18_Witness ==
    /\ f_bot = "goldm" /\ f_batch = 1 /\ f_pc = "cycle"
    /\ clk_phase = "post"
    /\ f_new_contract = NoSymbol /\ f_faults = 0 /\ f_pos = f_start

-----------------------------------------------------------------------------
(* C19 *)

\* the lot size of a NIFTY contract by its expiry month: 75 from March 2025
LotSizeByExpiry(year, month) ==
    IF year > 2025 \/ (year = 2025 /\ month >= 3) THEN 75 ELSE 50

\* C19: for the NIFTY futures symbol of every (year, month), the order quantity
\* of k lots is k times the lot size of the expiry (75 from March 2025, 50
\* before), and the position reader turns that quantity back into exactly k
\* lots: both directions use the same lot size.
C19_LotSizeRoundTrip ==
    /\ (p_fn = "get_nifty_lot_size" /\ p_pc \in {"filled", "returned"}) =>
          p_ret.quantity = p_arg.lots * LotSizeByExpiry(p_arg.year, p_arg.month)
    /\ (p_fn = "get_nifty_lot_size" /\ p_pc = "returned") =>
          p_ret.lots = p_arg.lots

\* an order of a contract on either side of March 2025, read back
C19_Witness ==
    /\ p_fn = "get_nifty_lot_size" /\ p_pc = "returned"
    /\ p_arg.year = 2025 /\ p_arg.month = 3 /\ p_arg.lots = MaxLots
    /\ p_ret.quantity = MaxLots * 75 /\ p_ret.lots = MaxLots

-----------------------------------------------------------------------------
(* C20 *)

\* the days of a month, as day numbers
MonthDays(year, month) ==
    DayNumber(year, month, 1) .. DayNumber(year, month, DaysInMonth(year, month))

\* C20: for every (year, month), get_last_thursday returns a day of that
\* month that is a Thursday, and no later day of the month is a Thursday;
\* December, whose end is found from 1 January of the next year, included.
C20_LastThursday ==
    (p_fn = "get_last_thursday" /\ p_pc = "returned") =>
        /\ p_ret \in MonthDays(p_arg.year, p_arg.month)
        /\ weekday(p_ret) = 3
        /\ \A d \in MonthDays(p_arg.year, p_arg.month) : d > p_ret => weekday(d) # 3

\* a December whose last Thursday is 31 December
C20_Witness ==
    /\ p_fn = "get_last_thursday" /\ p_pc = "returned"
    /\ p_arg.month = 12
    /\ p_ret = DayNumber(p_arg.year, 12, 31)

-----------------------------------------------------------------------------
(* C21 *)

\* the short CE lots held: the sum over the strikes of the gateway's net positions
ShortLotsHeld == get_total_ce_lots

\* C21: with no other trader on the account and a start at or below
\* LOTS_TO_SELL, the short CE lots actually held never exceed LOTS_TO_SELL,
\* whatever the gateway does: late fills, failed cancel and failed status
\* calls included.
C21_ShortWithinTarget == ShortLotsHeld <= LOTS_TO_SELL(h_bot)

-----------------------------------------------------------------------------
(* C22 *)

\* the step submits a LIMIT order: the gateway's book grows by one
Submits == Len(h_orders') = Len(h_orders) + 1

\* C22: the executor never has two of its own LIMIT orders open at once: when
\* place_ce_sell_order or the matcher's buy-to-cover step submits an order, no
\* order submitted earlier is still open at the gateway, also after a status
\* poll or a cancel call that faulted.
C22_OneOpenOrder == [][Submits => OpenOrders = {}]_vars

-----------------------------------------------------------------------------
(* C23 *)

\* the orders submitted by the latest call of place_ce_sell_order: the last
\* ce.placed orders of the book (in the NIFTY bot only that function submits)
CallOrders == {i \in 1 .. Len(h_orders) : i > Len(h_orders) - ce.placed}

FilledOfCall == {i \in CallOrders : h_orders[i].status = "COMPLETE"}

\* C23: one call of place_ce_sell_order(strike, expiry, 1) never results in two
\* filled sell orders, so it adds at most 1 lot to the short position of its
\* strike, whatever the interleaving of fills, polls and cancels.
C23_OneFillPerCall == h_bot = "nifty" => Cardinality(FilledOfCall) <= 1

-----------------------------------------------------------------------------
(* C24 *)

\* lots held long over both contracts when the rollover was triggered
StartLongLots(s) ==
    IF f_start[s] > 0
    THEN (IF f_bot = "nifty" THEN f_start[s] \div 75 ELSE f_start[s])
    ELSE 0

StartHeld ==
    StartLongLots(get_contract_symbol(2025, 6)) + StartLongLots(get_contract_symbol(2025, 7))

\* the step calls place_kite_order for the buy of a rollover pair
SubmitsPairBuy == f_pc = "roll_buy" /\ f_pc' = "kite"

\* C24: in each rollover pair the buy of the new contract is submitted only if
\* the sell of the old contract of that pair was accepted (place_kite_order
\* returned True), so during a rollover the lots held over the old and the new
\* contract never exceed the lots held when the rollover began.
C24_BuyOnlyAfterSell ==
    [][/\ SubmitsPairBuy => k_ret
       /\ InRollover' => TotalHeld' <= StartHeld']_vars

-----------------------------------------------------------------------------
(* C25 *)

\* C25: a rollover never sells more lots of a contract than are held in it:
\* the number of sell orders it places on the contract chosen as current is at
\* most the lots held in that contract when the rollover began, also when long
\* positions in several contracts are reported, and no position of the
\* underlying ever becomes negative.
C25_SellsWithinHolding ==
    /\ InRollover => f_N <= StartLongLots(f_current_contract)
    /\ f_pc # "idle" => \A s \in Contracts : f_pos[s] >= 0

-----------------------------------------------------------------------------
(* C26 *)

\* the step is a kite.place_order call that the gateway accepts
OrderAccepted == f_pc = "kite" /\ f_pos' # f_pos

\* C26: the futures monitor submits no order while the clock is inside the
\* blackout window 09:00 to 09:05: not from the rollover lot-pair loop and not
\* from the staggered-entry loop after a stagger delay has elapsed.
C26_NoOrderInBlackout == [][OrderAccepted => clk_phase # "blackout"]_vars

-----------------------------------------------------------------------------
(* C27 *)

\* C27: for every expiry that is a trading day and every holiday list, the
\* rollover date is at least 8 calendar days before the expiry; so whenever
\* the next month is chosen for new_contract (today >= rollover, or at most 8
\* days to expiry), today is on or after the rollover date, and on a day before
\* the rollover date the current month is chosen.
C27_NextMonthFromRollover ==
    (p_fn = "new_contract" /\ p_pc = "returned") =>
        /\ p_ret.rollover <= p_arg.expiry - 8
        /\ p_ret.month = 7 => p_arg.today >= p_ret.rollover
        /\ p_arg.today < p_ret.rollover => p_ret.month = 6

\* the next month is chosen on the rollover date itself, 8 days before expiry
C27_Witness ==
    /\ p_fn = "new_contract" /\ p_pc = "returned"
    /\ p_ret.month = 7
    /\ p_arg.today = p_ret.rollover
    /\ p_ret.days_to_expiry = 8


====
